---------------------------- MODULE Spec2Model ----------------------------
(***************************************************************************)
(* A model of the regular-expression-to-DFA compiler of regex_to_DFA.py:   *)
(* the recursive-descent parser, Thompson's construction, the subset       *)
(* construction, partition-refinement minimisation and the dead-state      *)
(* report of regex_to_dfa.                                                 *)
(*                                                                         *)
(* A pattern and an alphabet are sequences of one-character strings.  An   *)
(* AST node is a tuple, as in the source: <<"lit", c>>, <<"epsilon">>,     *)
(* <<"concat", l, r>>, <<"union", l, r>>, <<"star", x>>.  A Python dict is *)
(* a function whose DOMAIN is the dict's key set; a Python list is a       *)
(* sequence (1-based here, 0-based in the source).                         *)
(***************************************************************************)
EXTENDS Integers, Sequences, FiniteSets, TLC

VARIABLES
    pc,               \* where the sequential caller of regex_to_dfa stands
    regex,            \* argument of the current call
    alphabet,         \* argument of the current call
    pos,              \* RegexParser.pos
    tree,             \* the AST returned by parser.parse()
    state_id,         \* the module-level counter behind new_state()
    nfa,              \* (nfa_start, nfa_accept, nfa_trans)
    sub,              \* locals of nfa_to_dfa
    accept_states,    \* get_accept_states' result
    mini,             \* locals of minimize_dfa
    result,           \* what regex_to_dfa returned (or the error it raised)
    entry_id,         \* state_id as the current call found it (history)
    th,               \* the two interleaved callers of the concurrent model
    weight_cache,     \* randomDFA's _cached_config_hash and _cached_weights
    calls             \* the get_optimized_weights calls made so far (history)

vars == <<pc, regex, alphabet, pos, tree, state_id, nfa, sub,
          accept_states, mini, result, entry_id, th, weight_cache, calls>>

-----------------------------------------------------------------------------
(* Bounds of the model.                                                    *)

\* longest enumerated pattern
MaxLen == 3
\* longest input string walked through an automaton
MaxStrLen == 3
\* longest pattern of the two interleaved callers
MaxConcLen == 2

\* the largest set of states epsilon_closure is tried on for every choice
\* of its members
MaxSeed == 2

\* how many get_optimized_weights calls a run of the cache model makes
MaxCalls == 4

\* characters of the enumerated patterns: two literals and the four
\* characters the grammar gives a meaning
PatternChars == {"a", "b", "(", ")", "|", "*"}

Patterns == UNION {[1..n -> PatternChars] : n \in 0..MaxLen}

Alphabets == {<<>>, <<"a">>, <<"a", "b">>, <<"b", "a">>}

\* the concrete scenarios of the specification, beyond the enumeration
UnionAB == <<"(", "a", "|", "b", ")">>
CcOrA == <<"(", "c", "c", "|", "a", ")", "c", "*">>

Scenarios ==
    { [regex |-> UnionAB, alphabet |-> <<"a", "b">>],
      [regex |-> CcOrA, alphabet |-> <<"a", "b", "c", "d">>],
      [regex |-> <<"a", "(", "a", "|", "b", ")", "*">>,
       alphabet |-> <<"a", "b">>],
      [regex |-> <<"(", "a", "|", "b", ")", "*", "a", "b">>,
       alphabet |-> <<"a", "b">>],
      [regex |-> <<"(", "a", "b", "|", "a", ")", "*">>,
       alphabet |-> <<"a", "b">>],
      [regex |-> <<"(", "a", "*", "b", ")", "*", "|", "b", "a">>,
       alphabet |-> <<"b", "a">>],
      [regex |-> <<"c">>, alphabet |-> <<"a", "b">>],
      [regex |-> <<"a", "|", "c">>, alphabet |-> <<"a", "b">>] }

Inputs == { [regex |-> p, alphabet |-> al] : p \in Patterns, al \in Alphabets }
              \cup Scenarios

\* what the caller whose calls are compared with a first call converts
SeqInputs == { inp \in Inputs : inp.alphabet \in {<<"a", "b">>, <<>>} }

\* what the two interleaved callers convert
ConcInputs ==
    { [regex |-> p, alphabet |-> <<"a", "b">>] :
        p \in UNION {[1..n -> {"a"}] : n \in 0..MaxConcLen} }

-----------------------------------------------------------------------------
(* Generic helpers.                                                        *)

Range(f) == { f[x] : x \in DOMAIN f }

Min(S) == CHOOSE x \in S : \A y \in S : x <= y

\* the elements of a finite set of integers, ascending
RECURSIVE SetToSeq(_)
SetToSeq(S) == IF S = {} THEN <<>> ELSE <<Min(S)>> \o SetToSeq(S \ {Min(S)})

\* all strings over alphabet al of length at most n
Strings(al, n) == UNION {[1..k -> Range(al)] : k \in 0..n}

-----------------------------------------------------------------------------
(* 1. RegexParser.  Every production takes the pattern and the cursor and  *)
(* returns [ok, node, pos]; ok = FALSE is the ValueError of parse_atom     *)
(* travelling up the call stack.                                           *)

Ok(node, p) == [ok |-> TRUE, node |-> node, pos |-> p]
Raise(p) == [ok |-> FALSE, node |-> <<>>, pos |-> p]

\* the fold of parse_concat: node = nodes[0]; for n in nodes[1:]: concat
RECURSIVE FoldConcat(_, _)
FoldConcat(node, rest) ==
    IF rest = <<>> THEN node
    ELSE FoldConcat(<<"concat", node, Head(rest)>>, Tail(rest))

RECURSIVE parse_union(_, _), parse_union_loop(_, _, _),
          parse_concat(_, _), parse_concat_loop(_, _, _),
          parse_repeat(_, _), parse_repeat_loop(_, _, _), parse_atom(_, _)

parse_union(pattern, p) ==
    LET first == parse_concat(pattern, p)
    IN  IF ~first.ok THEN first
        ELSE parse_union_loop(pattern, first.pos, first.node)

parse_union_loop(pattern, p, node) ==
    IF p < Len(pattern) /\ pattern[p + 1] = "|"
    THEN LET right == parse_concat(pattern, p + 1)
         IN  IF ~right.ok THEN right
             ELSE parse_union_loop(pattern, right.pos,
                                   <<"union", node, right.node>>)
    ELSE Ok(node, p)

parse_concat(pattern, p) == parse_concat_loop(pattern, p, <<>>)

parse_concat_loop(pattern, p, nodes) ==
    IF p < Len(pattern) /\ pattern[p + 1] \notin {")", "|"}
    THEN LET r == parse_repeat(pattern, p)
         IN  IF ~r.ok THEN r
             ELSE parse_concat_loop(pattern, r.pos, Append(nodes, r.node))
    ELSE IF nodes = <<>> THEN Ok(<<"epsilon">>, p)
         ELSE Ok(FoldConcat(Head(nodes), Tail(nodes)), p)

parse_repeat(pattern, p) ==
    LET a == parse_atom(pattern, p)
    IN  IF ~a.ok THEN a ELSE parse_repeat_loop(pattern, a.pos, a.node)

\* a repeat that takes one star only
parse_repeat_loop_once(pattern, p, node) ==
    IF p < Len(pattern) /\ pattern[p + 1] = "*"
    THEN Ok(<<"star", node>>, p + 1)
    ELSE Ok(node, p)

parse_repeat_loop(pattern, p, node) ==
    IF p < Len(pattern) /\ pattern[p + 1] = "*"
    THEN parse_repeat_loop(pattern, p + 1, <<"star", node>>)
    ELSE Ok(node, p)

\* parse_atom is only entered with the cursor on a character
\* (parse_concat's loop condition), so pattern[self.pos] never fails
parse_atom(pattern, p) ==
    IF pattern[p + 1] = "("
    THEN LET inner == parse_union(pattern, p + 1)
         IN  IF ~inner.ok THEN inner
             ELSE IF inner.pos >= Len(pattern) \/ pattern[inner.pos + 1] # ")"
                  THEN Raise(inner.pos)
                  ELSE Ok(inner.node, inner.pos + 1)
    ELSE Ok(<<"lit", pattern[p + 1]>>, p + 1)

\* a parser that starts where the last one stopped
RegexParser_init_stale(pattern) == pos

\* RegexParser.__init__: the cursor of a new parser
RegexParser_init(pattern) == 0

\* RegexParser.parse
parse(pattern, p) == parse_union(pattern, p)

-----------------------------------------------------------------------------
(* 2. Thompson's construction.  A transition map is a function from the    *)
(* states that are keys of the dict to functions from symbols to sets of   *)
(* states; None is the epsilon label.                                      *)

None == "None"

\* new_state without its increment: every call returns the same value
SeqSupply_stuck(sid, n) == [i \in 1..n |-> sid]

\* new_state, run without interruption: the identifiers that n successive
\* calls return when the counter stands at sid
SeqSupply(sid, n) == [i \in 1..n |-> sid + i - 1]

\* the number of new_state calls build_nfa makes for a node
RECURSIVE NumNewStates(_)
NumNewStates(node) ==
    CASE node[1] = "lit"     -> 2
      [] node[1] = "epsilon" -> 2
      [] node[1] = "concat"  -> NumNewStates(node[2]) + NumNewStates(node[3])
      [] node[1] = "union"   -> 2 + NumNewStates(node[2]) + NumNewStates(node[3])
      [] node[1] = "star"    -> 2 + NumNewStates(node[2])

add_transition(trans, s, symbol, t) ==
    LET row == IF s \in DOMAIN trans THEN trans[s] ELSE <<>>
        old == IF symbol \in DOMAIN row THEN row[symbol] ELSE {}
        new_row == [y \in DOMAIN row \cup {symbol} |->
                      IF y = symbol THEN old \cup {t} ELSE row[y]]
    IN  [x \in DOMAIN trans \cup {s} |-> IF x = s THEN new_row ELSE trans[x]]

\* the accept state is given no row of its own
ensure_key_skipped(trans, t) == trans

\* "if t not in trans: trans[t] = {}"
ensure_key(trans, t) ==
    IF t \in DOMAIN trans THEN trans
    ELSE [x \in DOMAIN trans \cup {t} |-> IF x = t THEN <<>> ELSE trans[x]]

combine_transitions(t1, t2) ==
    LET row(d, s) == IF s \in DOMAIN d THEN d[s] ELSE <<>>
        targets(d, s, y) == IF y \in DOMAIN row(d, s) THEN row(d, s)[y] ELSE {}
    IN  [s \in DOMAIN t1 \cup DOMAIN t2 |->
           [y \in DOMAIN row(t1, s) \cup DOMAIN row(t2, s) |->
              targets(t1, s, y) \cup targets(t2, s, y)]]

\* a star without the edge for zero repetitions
StarEdges_NoSkip(s, t, s1, t1) ==
    add_transition(add_transition(add_transition(<<>>,
        s, None, s1), t1, None, s1), t1, None, t)

\* the epsilon edges a star node adds around its child (s1, t1),
\* lines 123-126
StarEdges(s, t, s1, t1) ==
    add_transition(add_transition(add_transition(add_transition(<<>>,
        s, None, s1), s, None, t), t1, None, s1), t1, None, t)

\* build_nfa(node), with ids the identifiers its new_state calls return, in
\* call order; rest is what is left of ids for the caller
RECURSIVE build_nfa(_, _)
build_nfa(node, ids) ==
    CASE node[1] \in {"lit", "epsilon"} ->
           LET s == ids[1]
               t == ids[2]
               label == IF node[1] = "lit" THEN node[2] ELSE None
           IN  [s |-> s, t |-> t,
                trans |-> ensure_key(add_transition(<<>>, s, label, t), t),
                rest |-> SubSeq(ids, 3, Len(ids))]
      [] node[1] = "concat" ->
           LET l == build_nfa(node[2], ids)
               r == build_nfa(node[3], l.rest)
               trans1 == add_transition(l.trans, l.t, None, r.s)
           IN  [s |-> l.s, t |-> r.t,
                trans |-> combine_transitions(trans1, r.trans),
                rest |-> r.rest]
      [] node[1] = "union" ->
           LET s == ids[1]
               t == ids[2]
               l == build_nfa(node[2], SubSeq(ids, 3, Len(ids)))
               r == build_nfa(node[3], l.rest)
               own == add_transition(add_transition(add_transition(
                        add_transition(<<>>, s, None, l.s), s, None, r.s),
                        l.t, None, t), r.t, None, t)
           IN  [s |-> s, t |-> t,
                trans |-> ensure_key(combine_transitions(
                            combine_transitions(own, l.trans), r.trans), t),
                rest |-> r.rest]
      [] node[1] = "star" ->
           LET s == ids[1]
               t == ids[2]
               x == build_nfa(node[2], SubSeq(ids, 3, Len(ids)))
           IN  [s |-> s, t |-> t,
                trans |-> ensure_key(combine_transitions(
                            StarEdges(s, t, x.s, x.t), x.trans), t),
                rest |-> x.rest]

\* a closure that follows one epsilon move from each given state and no
\* further
epsilon_closure_one_step(trans, states) ==
    states \cup UNION { trans[s][None] :
                          s \in { x \in states : /\ x \in DOMAIN trans
                                                 /\ None \in DOMAIN trans[x] } }

\* epsilon_closure: the stack is a sequence popped at its end; the elements
\* of a set are pushed in ascending order (the result does not depend on it)
RECURSIVE closure_loop(_, _, _)
closure_loop(trans, stack, closure) ==
    IF stack = <<>> THEN closure
    ELSE LET s == stack[Len(stack)]
             popped == SubSeq(stack, 1, Len(stack) - 1)
             fresh == IF s \in DOMAIN trans /\ None \in DOMAIN trans[s]
                      THEN trans[s][None] \ closure ELSE {}
         IN  closure_loop(trans, popped \o SetToSeq(fresh), closure \cup fresh)

epsilon_closure(trans, states) == closure_loop(trans, SetToSeq(states), states)

-----------------------------------------------------------------------------
(* 3. Subset construction.  The locals of nfa_to_dfa are one record:       *)
(* dfa_states maps a set of NFA states to its id, unmarked is the queue    *)
(* (popped at the front), dead_state is NoDead for Python's None.          *)

NoDead == -1

\* a dead state created up front instead of on first need
nfa_to_dfa_init_eager(nfa_start, trans) ==
    LET start_set == epsilon_closure(trans, {nfa_start})
    IN  [ dfa_states      |-> (start_set :> 0),
          dfa_transitions |-> (1 :> <<>>),
          start_state     |-> 0,
          unmarked        |-> <<start_set>>,
          next_state_id   |-> 2,
          dead_state      |-> 1 ]

\* lines 148-155
nfa_to_dfa_init(nfa_start, trans) ==
    LET start_set == epsilon_closure(trans, {nfa_start})
    IN  [ dfa_states      |-> (start_set :> 0),
          dfa_transitions |-> <<>>,
          start_state     |-> 0,
          unmarked        |-> <<start_set>>,
          next_state_id   |-> 1,
          dead_state      |-> NoDead ]

\* a move that follows every edge with a symbol on it, whatever the symbol
move_wildcard(trans, current, symbol) ==
    UNION { UNION { trans[s][y] : y \in DOMAIN trans[s] \ {None} } :
              s \in current \cap DOMAIN trans }

\* lines 162-165
move(trans, current, symbol) ==
    UNION { trans[s][symbol] :
              s \in { x \in current : x \in DOMAIN trans
                                        /\ symbol \in DOMAIN trans[x] } }

\* dfa_transitions[current_id][symbol] = target
set_target(dfa_transitions, current_id, symbol, target) ==
    [dfa_transitions EXCEPT ![current_id] = (symbol :> target) @@ @]

\* a successor set that was seen before is enqueued again
nfa_to_dfa_symbol_requeue(st, trans, current, current_id, symbol) ==
    LET closure == epsilon_closure(trans, move(trans, current, symbol))
    IN  IF closure = {}
        THEN IF st.dead_state = NoDead
             THEN LET dead == st.next_state_id
                  IN  [st EXCEPT
                         !.dead_state = dead,
                         !.next_state_id = @ + 1,
                         !.dfa_transitions =
                            set_target((dead :> <<>>) @@ @,
                                       current_id, symbol, dead)]
             ELSE [st EXCEPT
                     !.dfa_transitions =
                        set_target(@, current_id, symbol, st.dead_state)]
        ELSE IF closure \notin DOMAIN st.dfa_states
             THEN [st EXCEPT
                     !.dfa_states = (closure :> st.next_state_id) @@ @,
                     !.next_state_id = @ + 1,
                     !.unmarked = Append(@, closure),
                     !.dfa_transitions =
                        set_target(@, current_id, symbol, st.next_state_id)]
             ELSE [st EXCEPT
                     !.unmarked = Append(@, closure),
                     !.dfa_transitions =
                        set_target(@, current_id, symbol,
                                   st.dfa_states[closure])]

\* a dead state made anew for every empty successor set
nfa_to_dfa_symbol_fresh_dead(st, trans, current, current_id, symbol) ==
    LET closure == epsilon_closure(trans, move(trans, current, symbol))
    IN  IF closure = {}
        THEN LET dead == st.next_state_id
             IN  [st EXCEPT
                    !.dead_state = dead,
                    !.next_state_id = @ + 1,
                    !.dfa_transitions =
                       set_target((dead :> <<>>) @@ @,
                                  current_id, symbol, dead)]
        ELSE IF closure \notin DOMAIN st.dfa_states
             THEN [st EXCEPT
                     !.dfa_states = (closure :> st.next_state_id) @@ @,
                     !.next_state_id = @ + 1,
                     !.unmarked = Append(@, closure),
                     !.dfa_transitions =
                        set_target(@, current_id, symbol, st.next_state_id)]
             ELSE [st EXCEPT
                     !.dfa_transitions =
                        set_target(@, current_id, symbol,
                                   st.dfa_states[closure])]

\* the body of "for symbol in alphabet", lines 162-179
nfa_to_dfa_symbol(st, trans, current, current_id, symbol) ==
    LET closure == epsilon_closure(trans, move(trans, current, symbol))
    IN  IF closure = {}
        THEN IF st.dead_state = NoDead
             THEN LET dead == st.next_state_id
                  IN  [st EXCEPT
                         !.dead_state = dead,
                         !.next_state_id = @ + 1,
                         !.dfa_transitions =
                            set_target((dead :> <<>>) @@ @,
                                       current_id, symbol, dead)]
             ELSE [st EXCEPT
                     !.dfa_transitions =
                        set_target(@, current_id, symbol, st.dead_state)]
        ELSE IF closure \notin DOMAIN st.dfa_states
             THEN [st EXCEPT
                     !.dfa_states = (closure :> st.next_state_id) @@ @,
                     !.next_state_id = @ + 1,
                     !.unmarked = Append(@, closure),
                     !.dfa_transitions =
                        set_target(@, current_id, symbol, st.next_state_id)]
             ELSE [st EXCEPT
                     !.dfa_transitions =
                        set_target(@, current_id, symbol,
                                   st.dfa_states[closure])]

RECURSIVE nfa_to_dfa_symbols(_, _, _, _, _)
nfa_to_dfa_symbols(st, trans, current, current_id, symbols) ==
    IF symbols = <<>> THEN st
    ELSE nfa_to_dfa_symbols(
             nfa_to_dfa_symbol(st, trans, current, current_id, Head(symbols)),
             trans, current, current_id, Tail(symbols))

\* one iteration of "while unmarked", lines 158-179
nfa_to_dfa_step(st, trans, alpha) ==
    LET current == Head(st.unmarked)
        current_id == st.dfa_states[current]
        popped == [st EXCEPT
                     !.unmarked = Tail(@),
                     !.dfa_transitions = (current_id :> <<>>) @@ @]
    IN  nfa_to_dfa_symbols(popped, trans, current, current_id, alpha)

\* the whole loop
RECURSIVE nfa_to_dfa_loop(_, _, _)
nfa_to_dfa_loop(st, trans, alpha) ==
    IF st.unmarked = <<>> THEN st
    ELSE nfa_to_dfa_loop(nfa_to_dfa_step(st, trans, alpha), trans, alpha)

nfa_to_dfa(nfa_start, nfa_accept, trans, alpha) ==
    nfa_to_dfa_loop(nfa_to_dfa_init(nfa_start, trans), trans, alpha)

get_accept_states(dfa_states, nfa_accept) ==
    { dfa_states[state_set] :
        state_set \in { x \in DOMAIN dfa_states : nfa_accept \in x } }

\* lines 278-280 left out: the dead state keeps the empty row it was given
dead_self_loops_skipped(dfa_transitions, dead_state, alpha) ==
    dfa_transitions

\* regex_to_dfa, lines 278-280: the dead state loops on every symbol
dead_self_loops(dfa_transitions, dead_state, alpha) ==
    IF dead_state = NoDead THEN dfa_transitions
    ELSE [dfa_transitions EXCEPT
            ![dead_state] = [y \in DOMAIN @ \cup Range(alpha) |->
                               IF y \in Range(alpha) THEN dead_state ELSE @[y]]]

-----------------------------------------------------------------------------
(* 4. Minimisation by partition refinement.  The locals of minimize_dfa    *)
(* are one record: trans is dfa_transitions after completion, P and W are  *)
(* the lists of blocks (W popped at its end).                              *)

\* line 195 reads dfa_transitions[s][symbol] for every key s: a key that
\* lacks a symbol raises KeyError there
lookup_fails(dfa_transitions, alpha) ==
    \E s \in DOMAIN dfa_transitions :
        \E a \in Range(alpha) : a \notin DOMAIN dfa_transitions[s]

\* lines 192-195
collect_states(dfa_transitions, alpha) ==
    DOMAIN dfa_transitions
      \cup { dfa_transitions[s][a] : s \in DOMAIN dfa_transitions,
                                     a \in Range(alpha) }

\* lines 197-202: every state gets a row, every missing symbol a self-loop
complete(dfa_transitions, states, alpha) ==
    [s \in states |->
       LET row == IF s \in DOMAIN dfa_transitions
                  THEN dfa_transitions[s] ELSE <<>>
       IN  [a \in DOMAIN row \cup Range(alpha) |->
              IF a \in DOMAIN row THEN row[a] ELSE s]]

\* the second block taken as all states instead of the non-accepting ones
initial_partition_overlap(states, F) ==
    (IF F # {} THEN <<F>> ELSE <<>>)
      \o (IF states # {} THEN <<states>> ELSE <<>>)

\* lines 205-211
initial_partition(states, F) ==
    (IF F # {} THEN <<F>> ELSE <<>>)
      \o (IF states \ F # {} THEN <<states \ F>> ELSE <<>>)

\* lines 192-212
minimize_init(dfa_transitions, accept, alpha) ==
    IF lookup_fails(dfa_transitions, alpha)
    THEN [ err |-> "KeyError", states |-> {}, trans |-> <<>>, F |-> {},
           P |-> <<>>, W |-> <<>> ]
    ELSE LET states == collect_states(dfa_transitions, alpha)
             P0 == initial_partition(states, accept)
         IN  [ err |-> "", states |-> states,
               trans |-> complete(dfa_transitions, states, alpha),
               F |-> accept, P |-> P0, W |-> P0 ]

\* list.remove: drops the first occurrence of Y
RECURSIVE list_remove(_, _)
list_remove(W, Y) ==
    IF W = <<>> THEN <<>>
    ELSE IF Head(W) = Y THEN Tail(W)
         ELSE <<Head(W)>> \o list_remove(Tail(W), Y)

\* a block that is never split
split_block_never(acc, Y, X) ==
    [ new_P |-> Append(acc.new_P, Y), W |-> acc.W ]

\* on a tie the difference part is queued instead of the intersection
split_block_tie_diff(acc, Y, X) ==
    LET inter == Y \cap X
        diff == Y \ X
    IN  IF inter # {} /\ diff # {}
        THEN [ new_P |-> acc.new_P \o <<inter, diff>>,
               W |-> IF Y \in Range(acc.W)
                     THEN list_remove(acc.W, Y) \o <<inter, diff>>
                     ELSE IF Cardinality(inter) < Cardinality(diff)
                          THEN Append(acc.W, inter)
                          ELSE Append(acc.W, diff) ]
        ELSE [ new_P |-> Append(acc.new_P, Y), W |-> acc.W ]

\* a block that is not split is queued again
split_block_repush(acc, Y, X) ==
    LET inter == Y \cap X
        diff == Y \ X
    IN  IF inter # {} /\ diff # {}
        THEN [ new_P |-> acc.new_P \o <<inter, diff>>,
               W |-> IF Y \in Range(acc.W)
                     THEN list_remove(acc.W, Y) \o <<inter, diff>>
                     ELSE IF Cardinality(inter) <= Cardinality(diff)
                          THEN Append(acc.W, inter)
                          ELSE Append(acc.W, diff) ]
        ELSE [ new_P |-> Append(acc.new_P, Y), W |-> Append(acc.W, Y) ]

\* a split that queues a half only when the split block was itself queued
split_block_no_push(acc, Y, X) ==
    LET inter == Y \cap X
        diff == Y \ X
    IN  IF inter # {} /\ diff # {}
        THEN [ new_P |-> acc.new_P \o <<inter, diff>>,
               W |-> IF Y \in Range(acc.W)
                     THEN list_remove(acc.W, Y) \o <<inter, diff>>
                     ELSE acc.W ]
        ELSE [ new_P |-> Append(acc.new_P, Y), W |-> acc.W ]

\* lines 221-236 for one block Y: [new_P, W] after it
split_block(acc, Y, X) ==
    LET inter == Y \cap X
        diff == Y \ X
    IN  IF inter # {} /\ diff # {}
        THEN [ new_P |-> acc.new_P \o <<inter, diff>>,
               W |-> IF Y \in Range(acc.W)
                     THEN list_remove(acc.W, Y) \o <<inter, diff>>
                     ELSE IF Cardinality(inter) <= Cardinality(diff)
                          THEN Append(acc.W, inter)
                          ELSE Append(acc.W, diff) ]
        ELSE [ new_P |-> Append(acc.new_P, Y), W |-> acc.W ]

\* "for Y in P", lines 220-236
RECURSIVE split_blocks(_, _, _)
split_blocks(acc, blocks, X) ==
    IF blocks = <<>> THEN acc
    ELSE split_blocks(split_block(acc, Head(blocks), X), Tail(blocks), X)

\* line 218
preimage(m, symbol, A) == { s \in m.states : m.trans[s][symbol] \in A }

\* the body of "for symbol in alphabet", lines 218-237
refine_symbol(m, A, symbol) ==
    LET r == split_blocks([new_P |-> <<>>, W |-> m.W], m.P,
                          preimage(m, symbol, A))
    IN  [m EXCEPT !.P = r.new_P, !.W = r.W]

RECURSIVE refine_symbols(_, _, _)
refine_symbols(m, A, symbols) ==
    IF symbols = <<>> THEN m
    ELSE refine_symbols(refine_symbol(m, A, Head(symbols)), A, Tail(symbols))

\* one iteration of "while W", lines 216-237
minimize_step(m, alpha) ==
    LET A == m.W[Len(m.W)]
    IN  refine_symbols([m EXCEPT !.W = SubSeq(@, 1, Len(@) - 1)], A, alpha)

RECURSIVE minimize_loop(_, _)
minimize_loop(m, alpha) ==
    IF m.W = <<>> THEN m ELSE minimize_loop(minimize_step(m, alpha), alpha)

\* lines 240-243: a state maps to the (0-based) index of its block; were a
\* state in two blocks, the later assignment would win
new_state_map(P) ==
    [s \in UNION Range(P) |->
       (CHOOSE i \in DOMAIN P :
           s \in P[i] /\ \A j \in DOMAIN P : s \in P[j] => j <= i) - 1]

\* line 249, rep = next(iter(block)): the language fixes no iteration order
\* for a set, so a representative is any member; reps maps each block's
\* index to the member picked
RepChoices(P) ==
    { reps \in [DOMAIN P -> UNION Range(P)] :
        \A i \in DOMAIN P : reps[i] \in P[i] }

\* the representative's target, not mapped to its block
min_target_unmapped(m, map, rep, symbol) == m.trans[rep][symbol]

\* line 251
min_target(m, map, rep, symbol) == map[m.trans[rep][symbol]]

\* lines 246-255
minimize_finish(m, start_state, alpha, reps) ==
    LET map == new_state_map(m.P)
    IN  [ transitions |->
            [i \in 0..(Len(m.P) - 1) |->
               [a \in Range(alpha) |-> min_target(m, map, reps[i + 1], a)]],
          start_state |-> map[start_state],
          accept_states |-> { map[s] : s \in m.F },
          map |-> map ]

\* a sink reported dead whether or not it accepts
is_dead_any_sink(s, row, min_accept_states) ==
    \A a \in DOMAIN row : row[a] = s

\* one self-loop taken for all
is_dead_some_loop(s, row, min_accept_states) ==
    s \notin min_accept_states /\ \E a \in DOMAIN row : row[a] = s

\* lines 287-288: s is reported dead
is_dead(s, row, min_accept_states) ==
    s \notin min_accept_states /\ \A a \in DOMAIN row : row[a] = s

\* lines 287-288, in the order of the dict's keys 0, 1, ...
dead_states_of(min_transitions, min_accept_states) ==
    SelectSeq(SetToSeq(DOMAIN min_transitions),
              LAMBDA s : is_dead(s, min_transitions[s], min_accept_states))

\* lines 290-296
make_result(rx, min) ==
    [ start_state   |-> min.start_state,
      accept_states |-> min.accept_states,
      dead_states   |-> dead_states_of(min.transitions, min.accept_states),
      transitions   |-> min.transitions,
      regex         |-> rx ]

\* regex_to_dfa from line 274 on, run without interruption on the NFA n;
\* the representative of a block is one fixed member
convert_nfa(rx, al, n) ==
    LET st == nfa_to_dfa(n.s, n.t, n.trans, al)
        acc == get_accept_states(st.dfa_states, n.t)
        dt == dead_self_loops(st.dfa_transitions, st.dead_state, al)
        m0 == minimize_init(dt, acc, al)
    IN  IF m0.err # "" THEN [status |-> m0.err]
        ELSE LET m == minimize_loop(m0, al)
                 reps == [i \in DOMAIN m.P |-> CHOOSE s \in m.P[i] : TRUE]
             IN  [ status |-> "ok",
                   dfa |-> make_result(rx,
                              minimize_finish(m, st.start_state, al, reps)) ]

\* regex_to_dfa(rx, al) as the first call of a freshly loaded module,
\* run without interruption
regex_to_dfa(rx, al) ==
    LET r == parse(rx, 0)
    IN  IF ~r.ok THEN [status |-> "ValueError"]
        ELSE convert_nfa(rx, al,
                 build_nfa(r.node, SeqSupply(0, NumNewStates(r.node))))

-----------------------------------------------------------------------------
(* 5. regex_to_dfa, called again and again by one sequential caller.  The  *)
(* locals of a call are blank outside it; the module-level counter and the *)
(* cursor of the last parser keep the value the last call left.            *)

NoNfa == [s |-> 0, t |-> 0, trans |-> <<>>, rest |-> <<>>]
NoSub == [ dfa_states |-> <<>>, dfa_transitions |-> <<>>, start_state |-> 0,
           unmarked |-> <<>>, next_state_id |-> 0, dead_state |-> NoDead ]
NoMini == [ err |-> "", states |-> {}, trans |-> <<>>, F |-> {},
            P |-> <<>>, W |-> <<>> ]
NoResult == [status |-> "none"]

\* ---- randomDFA.py: the weight cache --------------------------------------

\* Python's None as a value of the cache globals (lines 20-21)
NoneValue == [kind |-> "None"]

\* lines 20-21: _cached_config_hash = None, _cached_weights = None
NoCache == [cached_config_hash |-> NoneValue, cached_weights |-> NoneValue]

\* lines 10-17: the module's CONFIG dictionary; the two floats are kept as
\* the text json.dumps renders them to
CONFIG ==
    [ alphabet |-> "abc", min_length |-> 4, max_length |-> 7,
      precision |-> "0.01", show_plot |-> FALSE,
      stability_threshold |-> "0.001" ]

\* configurations a caller hands to get_optimized_weights: CONFIG, CONFIG
\* with another alphabet, and CONFIG with a min_length RegexParams rejects
Configs ==
    { CONFIG,
      [CONFIG EXCEPT !.alphabet = "ab"],
      [CONFIG EXCEPT !.min_length = 0] }

\* the keys of a configuration in the order sort_keys=True puts them
SortedKeys ==
    << "alphabet", "max_length", "min_length", "precision", "show_plot",
       "stability_threshold" >>

\* line 27: json.dumps(config, sort_keys=True), as the list of its
\* key/value pairs in key order
json_dumps(config) ==
    [i \in 1..Len(SortedKeys) |-> <<SortedKeys[i], config[SortedKeys[i]]>>]

\* lines 23-28: the md5 digest of the dump; the digest is kept as a tagged
\* copy of what was digested (no two configurations of Configs collide)
get_config_hash(config) == [kind |-> "md5", of |-> json_dumps(config)]

\* regexGenerator.py line 374: the averaged literal probability the random
\* optimisation may settle on, in percent
LiteralProbs == {30, 50}

\* regexGenerator.py lines 176-186: get_weights, in percent
get_weights(literal_prob) ==
    LET remaining == 100 - literal_prob
    IN  [ kind |-> "dict", literal |-> literal_prob,
          star |-> (remaining * 5) \div 10,
          union |-> (remaining * 3) \div 10,
          concat |-> (remaining * 2) \div 10 ]

\* regexGenerator.py lines 331-390: what a call of
\* optimize_weights_from_config can end in. RegexParams (line 343) takes
\* math.log(min_length, 2) at line 130, a ValueError for min_length <= 0;
\* otherwise the randomised search returns get_weights of its average.
optimize_weights_from_config(config) ==
    IF config.min_length <= 0
    THEN {[kind |-> "raise", error |-> "ValueError"]}
    ELSE {get_weights(p) : p \in LiteralProbs}

\* get_optimized_weights with lines 38 and 39 exchanged: the hash is stored
\* before the optimisation is attempted
get_optimized_weights_hash_first(cache, config, outcome) ==
    LET current_hash == get_config_hash(config)
    IN  IF cache.cached_config_hash # current_hash
        THEN [ cache |-> [ cached_config_hash |-> current_hash,
                           cached_weights |->
                               IF outcome.kind = "raise"
                               THEN cache.cached_weights ELSE outcome ],
               invoked |-> TRUE, out |-> outcome ]
        ELSE [ cache |-> cache, invoked |-> FALSE,
               out |-> cache.cached_weights ]

\* lines 30-40: get_optimized_weights(config) on the cache globals, with
\* `outcome` what optimize_weights_from_config ends in if it is called.
\* The result is the cache afterwards, whether the optimisation was
\* invoked, and what the call returned or raised. An exception at line 38
\* leaves before either global is assigned.
get_optimized_weights(cache, config, outcome) ==
    LET current_hash == get_config_hash(config)
    IN  IF cache.cached_config_hash # current_hash
        THEN IF outcome.kind = "raise"
             THEN [cache |-> cache, invoked |-> TRUE, out |-> outcome]
             ELSE [ cache |-> [ cached_config_hash |-> current_hash,
                                cached_weights |-> outcome ],
                    invoked |-> TRUE, out |-> outcome ]
        ELSE [ cache |-> cache, invoked |-> FALSE,
               out |-> cache.cached_weights ]

\* the two callers of the concurrent model, before their calls
Threads == {1, 2}

NoThreads ==
    [i \in Threads |-> [ pc |-> "start", regex |-> <<>>, alphabet |-> <<>>,
                          tree |-> <<>>, s |-> 0, ids |-> <<>>,
                          nfa |-> NoNfa, result |-> NoResult ]]

Init ==
    /\ pc = "idle"
    /\ regex = <<>>
    /\ alphabet = <<>>
    /\ pos = 0
    /\ tree = <<>>
    /\ state_id = 0
    /\ nfa = NoNfa
    /\ sub = NoSub
    /\ accept_states = {}
    /\ mini = NoMini
    /\ result = NoResult
    /\ entry_id = 0
    /\ th = NoThreads
    /\ weight_cache = NoCache
    /\ calls = <<>>

\* lines 269-272: a new parser, parse(), and on success the counter reset;
\* a ValueError leaves regex_to_dfa before the reset
CallBody(inp) ==
    /\ pc = "idle"
    /\ regex' = inp.regex
    /\ alphabet' = inp.alphabet
    /\ LET r == parse(inp.regex, RegexParser_init(inp.regex))
       IN  /\ pos' = r.pos
           /\ IF r.ok
              THEN /\ tree' = r.node
                   /\ state_id' = 0
                   /\ result' = NoResult
                   /\ pc' = "build"
              ELSE /\ tree' = <<>>
                   /\ state_id' = state_id
                   /\ result' = [status |-> "ValueError"]
                   /\ pc' = "raised"
    /\ UNCHANGED <<nfa, sub, accept_states, mini, th, weight_cache, calls>>

Call(inp) == CallBody(inp) /\ UNCHANGED entry_id

\* the same call, remembering the value it found the counter at
CallAgain(inp) == CallBody(inp) /\ entry_id' = state_id

\* line 273
BuildNfa ==
    /\ pc = "build"
    /\ LET n == NumNewStates(tree)
       IN  /\ nfa' = build_nfa(tree, SeqSupply(state_id, n))
           /\ state_id' = state_id + n
    /\ pc' = "subset_init"
    /\ UNCHANGED <<regex, alphabet, pos, tree, sub, accept_states, mini,
                   result, entry_id, th, weight_cache, calls>>

\* nfa_to_dfa up to its loop
SubsetInit ==
    /\ pc = "subset_init"
    /\ sub' = nfa_to_dfa_init(nfa.s, nfa.trans)
    /\ pc' = "subset"
    /\ UNCHANGED <<regex, alphabet, pos, tree, state_id, nfa, accept_states,
                   mini, result, entry_id, th, weight_cache, calls>>

\* one iteration of nfa_to_dfa's loop
SubsetStep ==
    /\ pc = "subset"
    /\ sub.unmarked # <<>>
    /\ sub' = nfa_to_dfa_step(sub, nfa.trans, alphabet)
    /\ UNCHANGED <<pc, regex, alphabet, pos, tree, state_id, nfa,
                   accept_states, mini, result, entry_id, th, weight_cache, calls>>

\* nfa_to_dfa returns; lines 275-280
SubsetDone ==
    /\ pc = "subset"
    /\ sub.unmarked = <<>>
    /\ accept_states' = get_accept_states(sub.dfa_states, nfa.t)
    /\ sub' = [sub EXCEPT !.dfa_transitions =
                            dead_self_loops(@, sub.dead_state, alphabet)]
    /\ pc' = "min_init"
    /\ UNCHANGED <<regex, alphabet, pos, tree, state_id, nfa, mini, result,
                   entry_id, th, weight_cache, calls>>

\* minimize_dfa up to its loop
MinInit ==
    /\ pc = "min_init"
    /\ mini' = minimize_init(sub.dfa_transitions, accept_states, alphabet)
    /\ pc' = "minimize"
    /\ UNCHANGED <<regex, alphabet, pos, tree, state_id, nfa, sub,
                   accept_states, result, entry_id, th, weight_cache, calls>>

\* one iteration of minimize_dfa's loop
MinStep ==
    /\ pc = "minimize"
    /\ mini.err = ""
    /\ mini.W # <<>>
    /\ mini' = minimize_step(mini, alphabet)
    /\ UNCHANGED <<pc, regex, alphabet, pos, tree, state_id, nfa, sub,
                   accept_states, result, entry_id, th, weight_cache, calls>>

\* the rest of minimize_dfa and of regex_to_dfa, lines 240-255 and 287-296
MinFinish ==
    /\ pc = "minimize"
    /\ IF mini.err # ""
       THEN result' = [status |-> mini.err]
       ELSE /\ mini.W = <<>>
            /\ \E reps \in RepChoices(mini.P) :
                 LET min == minimize_finish(mini, sub.start_state, alphabet,
                                            reps)
                 IN  result' = [ status |-> "ok",
                                 dfa |-> make_result(regex, min),
                                 map |-> min.map ]
    /\ pc' = "done"
    /\ UNCHANGED <<regex, alphabet, pos, tree, state_id, nfa, sub,
                   accept_states, mini, entry_id, th, weight_cache, calls>>

\* regex_to_dfa has returned or raised: its locals are gone
Return ==
    /\ pc \in {"done", "raised"}
    /\ pc' = "idle"
    /\ regex' = <<>>
    /\ alphabet' = <<>>
    /\ tree' = <<>>
    /\ nfa' = NoNfa
    /\ sub' = NoSub
    /\ accept_states' = {}
    /\ mini' = NoMini
    /\ result' = NoResult
    /\ entry_id' = 0
    /\ UNCHANGED <<pos, state_id, th, weight_cache, calls>>

Next ==
    \/ \E inp \in Inputs : Call(inp)
    \/ BuildNfa
    \/ SubsetInit
    \/ SubsetStep
    \/ SubsetDone
    \/ MinInit
    \/ MinStep
    \/ MinFinish
    \/ Return

Spec == Init /\ [][Next]_vars

\* the same caller, with the history of each call's entry
NextSeq ==
    \/ \E inp \in SeqInputs : CallAgain(inp)
    \/ BuildNfa
    \/ SubsetInit
    \/ SubsetStep
    \/ SubsetDone
    \/ MinInit
    \/ MinStep
    \/ MinFinish
    \/ Return

SpecSeq == Init /\ [][NextSeq]_vars

\* nfa_to_dfa returns and its output goes to minimize_dfa as it is: lines
\* 274-275 followed by the call of line 283, without the self-loops of
\* lines 278-280
SubsetDoneRaw ==
    /\ pc = "subset"
    /\ sub.unmarked = <<>>
    /\ accept_states' = get_accept_states(sub.dfa_states, nfa.t)
    /\ pc' = "min_init"
    /\ UNCHANGED <<regex, alphabet, pos, tree, state_id, nfa, sub, mini,
                   result, entry_id, th, weight_cache, calls>>

\* a caller that minimises the raw output of nfa_to_dfa
NextRaw ==
    \/ \E inp \in Inputs : Call(inp)
    \/ BuildNfa
    \/ SubsetInit
    \/ SubsetStep
    \/ SubsetDoneRaw
    \/ MinInit
    \/ MinStep
    \/ MinFinish
    \/ Return

SpecRaw == Init /\ [][NextRaw]_vars

-----------------------------------------------------------------------------
(* 5b. Two callers of regex_to_dfa whose steps interleave.  Each has its   *)
(* own parser and locals; state_id is the one module-level counter.  A     *)
(* call of new_state is two steps, the read "s = state_id" and the         *)
(* increment "state_id += 1"; the reset of line 272 is a step.  ids        *)
(* collects what the caller's new_state calls returned, in call order.     *)

\* lines 269-270: parse, with a parser of the caller's own
T_Call(i, inp) ==
    /\ th[i].pc = "start"
    /\ LET r == parse(inp.regex, RegexParser_init(inp.regex))
       IN  th' = [th EXCEPT ![i] =
                    IF r.ok
                    THEN [@ EXCEPT !.regex = inp.regex,
                                   !.alphabet = inp.alphabet,
                                   !.tree = r.node, !.pc = "reset"]
                    ELSE [@ EXCEPT !.regex = inp.regex,
                                   !.alphabet = inp.alphabet,
                                   !.result = [status |-> "ValueError"],
                                   !.pc = "raised"]]
    /\ UNCHANGED <<pc, regex, alphabet, pos, tree, state_id, nfa, sub,
                   accept_states, mini, result, entry_id, weight_cache,
                   calls>>

\* line 272
T_Reset(i) ==
    /\ th[i].pc = "reset"
    /\ state_id' = 0
    /\ th' = [th EXCEPT ![i].pc = "read"]
    /\ UNCHANGED <<pc, regex, alphabet, pos, tree, nfa, sub, accept_states,
                   mini, result, entry_id, weight_cache,
                   calls>>

\* line 57, inside build_nfa
T_Read(i) ==
    /\ th[i].pc = "read"
    /\ th' = [th EXCEPT ![i].s = state_id, ![i].pc = "incr"]
    /\ UNCHANGED <<pc, regex, alphabet, pos, tree, state_id, nfa, sub,
                   accept_states, mini, result, entry_id, weight_cache,
                   calls>>

\* lines 58-59; after its last new_state call build_nfa returns
T_Incr(i) ==
    /\ th[i].pc = "incr"
    /\ state_id' = state_id + 1
    /\ LET ids == Append(th[i].ids, th[i].s)
       IN  th' = [th EXCEPT ![i].ids = ids,
                            ![i].pc = IF Len(ids) = NumNewStates(th[i].tree)
                                      THEN "convert" ELSE "read"]
    /\ UNCHANGED <<pc, regex, alphabet, pos, tree, nfa, sub, accept_states,
                   mini, result, entry_id, weight_cache,
                   calls>>

\* the NFA build_nfa returns, and lines 274-296 on the caller's own locals
T_Convert(i) ==
    /\ th[i].pc = "convert"
    /\ LET n == build_nfa(th[i].tree, th[i].ids)
       IN  th' = [th EXCEPT ![i].nfa = n,
                            ![i].result = convert_nfa(th[i].regex,
                                                      th[i].alphabet, n),
                            ![i].pc = "done"]
    /\ UNCHANGED <<pc, regex, alphabet, pos, tree, state_id, nfa, sub,
                   accept_states, mini, result, entry_id, weight_cache,
                   calls>>

NextConc ==
    \E i \in Threads :
        \/ \E inp \in ConcInputs : T_Call(i, inp)
        \/ T_Reset(i)
        \/ T_Read(i)
        \/ T_Incr(i)
        \/ T_Convert(i)

SpecConc == Init /\ [][NextConc]_vars

-----------------------------------------------------------------------------
(* 6. What the claims speak of: the language of an AST, the walk of a      *)
(* string through a DFA, reachability and distinguishability.              *)

\* w belongs to the language the AST denotes
RECURSIVE Matches(_, _)
Matches(node, w) ==
    CASE node[1] = "lit"     -> w = <<node[2]>>
      [] node[1] = "epsilon" -> w = <<>>
      [] node[1] = "concat"  ->
           \E k \in 0..Len(w) :
              /\ Matches(node[2], SubSeq(w, 1, k))
              /\ Matches(node[3], SubSeq(w, k + 1, Len(w)))
      [] node[1] = "union"   -> Matches(node[2], w) \/ Matches(node[3], w)
      [] node[1] = "star"    ->
           \/ w = <<>>
           \/ \E k \in 1..Len(w) :
                 /\ Matches(node[2], SubSeq(w, 1, k))
                 /\ Matches(node, SubSeq(w, k + 1, Len(w)))

\* the state a DFA reaches from s on w
RECURSIVE Walk(_, _, _)
Walk(trans, s, w) ==
    IF w = <<>> THEN s ELSE Walk(trans, trans[s][Head(w)], Tail(w))

\* the states a DFA reaches from the states of S on any string
RECURSIVE ReachFrom(_, _)
ReachFrom(trans, S) ==
    LET N == S \cup UNION { Range(trans[s]) : s \in S }
    IN  IF N = S THEN S ELSE ReachFrom(trans, N)

\* the pairs of states some string tells apart by acceptance
RECURSIVE DistFrom(_, _)
DistFrom(trans, D) ==
    LET K == DOMAIN trans
        N == D \cup { pq \in K \X K :
                        \E a \in DOMAIN trans[pq[1]] :
                           <<trans[pq[1]][a], trans[pq[2]][a]>> \in D }
    IN  IF N = D THEN D ELSE DistFrom(trans, N)

Distinguishable(trans, acc) ==
    DistFrom(trans, { pq \in (DOMAIN trans) \X (DOMAIN trans) :
                        (pq[1] \in acc) # (pq[2] \in acc) })

Returned == pc = "done" /\ result.status = "ok"

\* the depth of the parentheses after a left-to-right scan; a ")" at depth
\* 0 matches nothing and leaves the depth alone
RECURSIVE Depth(_)
Depth(p) ==
    IF p = <<>> THEN 0
    ELSE LET d == Depth(SubSeq(p, 1, Len(p) - 1))
             c == p[Len(p)]
         IN  IF c = "(" THEN d + 1
             ELSE IF c = ")" /\ d > 0 THEN d - 1 ELSE d

\* some ")" has no matching "("
HasUnmatchedClose(p) ==
    \E i \in 1..Len(p) : p[i] = ")" /\ Depth(SubSeq(p, 1, i - 1)) = 0

\* some "(" has no matching ")"
HasUnmatchedOpen(p) == Depth(p) > 0

-----------------------------------------------------------------------------
(* 7. The claims.                                                          *)

\* C1: the automaton regex_to_dfa returns is total and closed: every key
\* of transitions has a successor for exactly the alphabet's symbols, and
\* every successor, the start state, every accept state and every dead
\* state is a key of transitions.
C1_TotalAndClosed ==
    Returned =>
        LET d == result.dfa
            K == DOMAIN d.transitions
        IN  /\ \A s \in K :
                 /\ DOMAIN d.transitions[s] = Range(alphabet)
                 /\ \A a \in Range(alphabet) : d.transitions[s][a] \in K
            /\ d.start_state \in K
            /\ d.accept_states \subseteq K
            /\ Range(d.dead_states) \subseteq K

\* a call that merged states while minimising has returned
C1_Witness ==
    /\ Returned
    /\ alphabet # <<>>
    /\ Cardinality(DOMAIN result.dfa.transitions) < Cardinality(mini.states)
    /\ result.dfa.dead_states # <<>>
    /\ result.dfa.accept_states # {}

Accepts(d, w) == Walk(d.transitions, d.start_state, w) \in d.accept_states

\* C2: walking the returned DFA from start_state ends in an accept state
\* exactly for the strings (up to MaxStrLen) of the language the parsed AST
\* denotes; "(a|b)" over "ab" accepts exactly a and b; "(cc|a)c*" over
\* "abcd" accepts cc, a, ccccc, acccc and rejects c, b and the empty string.
C2_LanguageOfRegex ==
    Returned =>
        /\ \A w \in Strings(alphabet, MaxStrLen) :
              Accepts(result.dfa, w) <=> Matches(tree, w)
        /\ (regex = UnionAB /\ alphabet = <<"a", "b">>) =>
              { w \in Strings(alphabet, MaxStrLen) : Accepts(result.dfa, w) }
                 = { <<"a">>, <<"b">> }
        /\ (regex = CcOrA /\ alphabet = <<"a", "b", "c", "d">>) =>
              /\ Accepts(result.dfa, <<"c", "c">>)
              /\ Accepts(result.dfa, <<"a">>)
              /\ Accepts(result.dfa, <<"c", "c", "c", "c", "c">>)
              /\ Accepts(result.dfa, <<"a", "c", "c", "c", "c">>)
              /\ ~Accepts(result.dfa, <<"c">>)
              /\ ~Accepts(result.dfa, <<"b">>)
              /\ ~Accepts(result.dfa, <<>>)

\* the call for "(cc|a)c*" over "abcd" has returned a DFA that accepts acccc
C2_Witness ==
    /\ Returned
    /\ regex = CcOrA
    /\ alphabet = <<"a", "b", "c", "d">>
    /\ Accepts(result.dfa, <<"a", "c", "c", "c", "c">>)

\* C3: minimize_dfa preserves the language: on every string (up to
\* MaxStrLen) the block of the state the determinised DFA reaches is the
\* state the minimised DFA reaches, and one is accepting exactly when the
\* other is; the block map commutes with every single transition, so the
\* same holds for strings of any length.
C3_MinimizePreservesLanguage ==
    Returned =>
        LET d == result.dfa
            pre == sub.dfa_transitions
        IN  /\ \A w \in Strings(alphabet, MaxStrLen) :
                 LET q == Walk(pre, sub.start_state, w)
                     m == Walk(d.transitions, d.start_state, w)
                 IN  /\ result.map[q] = m
                     /\ q \in accept_states <=> m \in d.accept_states
            /\ result.map[sub.start_state] = d.start_state
            /\ \A q \in DOMAIN pre :
                 /\ q \in accept_states <=> result.map[q] \in d.accept_states
                 /\ \A a \in Range(alphabet) :
                      result.map[pre[q][a]] = d.transitions[result.map[q]][a]

\* a DFA with a dead state and two states in one block has been minimised
C3_Witness ==
    /\ Returned
    /\ sub.dead_state # NoDead
    /\ \E p, q \in DOMAIN sub.dfa_transitions :
          p # q /\ result.map[p] = result.map[q]
    /\ \E w \in Strings(alphabet, MaxStrLen) : Accepts(result.dfa, w)
    /\ \E w \in Strings(alphabet, MaxStrLen) : ~Accepts(result.dfa, w)

\* C4: in the returned DFA any two distinct states are told apart by some
\* string, and every state is reachable from start_state.
C4_Minimal ==
    Returned =>
        LET d == result.dfa
            K == DOMAIN d.transitions
        IN  /\ \A p, q \in K :
                 p # q => <<p, q>> \in Distinguishable(d.transitions,
                                                       d.accept_states)
            /\ ReachFrom(d.transitions, {d.start_state}) = K

\* a DFA of at least three states, two of them non-accepting, has been
\* returned after minimisation merged states
C4_Witness ==
    /\ Returned
    /\ Cardinality(DOMAIN result.dfa.transitions) >= 3
    /\ Cardinality(DOMAIN result.dfa.transitions \ result.dfa.accept_states) >= 2
    /\ Cardinality(DOMAIN result.dfa.transitions) < Cardinality(mini.states)

ParseReturned == pc \notin {"idle", "raised"}

\* C5: parse fails on every pattern with a ")" that has no matching "(",
\* and never returns an AST while its cursor is before the end of the
\* pattern.
C5_ParseConsumesAll ==
    /\ (pc # "idle" /\ HasUnmatchedClose(regex)) => pc = "raised"
    /\ ParseReturned => pos = Len(regex)

\* C6: parse fails on every pattern with a "(" that has no matching ")",
\* and regex_to_dfa then raises and returns no automaton.
C6_UnclosedParenFails ==
    (pc # "idle" /\ HasUnmatchedOpen(regex)) =>
        pc = "raised" /\ result.status = "ValueError"

\* C7: when two regex_to_dfa calls interleave, each call's NFA still has
\* pairwise distinct state identifiers and each call returns the DFA it
\* returns when run alone.
C7_ConcurrentCallsSafe ==
    \A i \in Threads :
        th[i].pc = "done" =>
            /\ Cardinality(Range(th[i].ids)) = Len(th[i].ids)
            /\ th[i].result = regex_to_dfa(th[i].regex, th[i].alphabet)

\* what the caller of regex_to_dfa gets: the error, or the automaton
Outcome(res) ==
    IF res.status = "ok" THEN [status |-> "ok", dfa |-> res.dfa]
    ELSE [status |-> res.status]

\* C8: whatever calls came before and whatever value they left the
\* counter at, a call returns exactly the start_state, accept_states,
\* dead_states and transitions that a first call with the same regex and
\* alphabet returns, and a failing call fails with the same error.
C8_SameAsFirstCall ==
    pc \in {"done", "raised"} =>
        Outcome(result) = regex_to_dfa(regex, alphabet)

\* a call that found the counter where an earlier call had left it has
\* returned a DFA of two states or more
C8_Witness ==
    /\ Returned
    /\ entry_id > 0
    /\ Len(regex) > 1
    /\ Cardinality(DOMAIN result.dfa.transitions) >= 2

\* C9: dead_states lists exactly the minimised states that are not
\* accepting and go to themselves on every alphabet symbol; no string
\* leads from a listed state to an accept state.
C9_DeadStatesExact ==
    Returned =>
        LET d == result.dfa
            K == DOMAIN d.transitions
        IN  /\ Range(d.dead_states) =
                 { s \in K : /\ s \notin d.accept_states
                             /\ \A a \in Range(alphabet) :
                                   d.transitions[s][a] = s }
            /\ \A s \in Range(d.dead_states) :
                 ReachFrom(d.transitions, {s}) \cap d.accept_states = {}

\* a DFA with a dead state, an accept state and a third state has been
\* returned
C9_Witness ==
    /\ Returned
    /\ result.dfa.dead_states # <<>>
    /\ result.dfa.accept_states # {}
    /\ Cardinality(DOMAIN result.dfa.transitions) >= 3

\* the states of a DFA from which no accept state is reachable
Hopeless(trans, acc) ==
    { s \in DOMAIN trans : ReachFrom(trans, {s}) \cap acc = {} }

\* C10: every non-accepting state of the returned DFA from which no accept
\* state is reachable is listed in dead_states, and dead_states lists at
\* most one state.
C10_DeadStatesComplete ==
    Returned =>
        LET d == result.dfa
        IN  /\ Hopeless(d.transitions, d.accept_states)
                 \subseteq Range(d.dead_states)
            /\ Len(d.dead_states) <= 1

\* the determinised DFA had two states from which nothing is accepted, an
\* accept state is reachable, and one dead state is listed
C10_Witness ==
    /\ Returned
    /\ Cardinality(Hopeless(sub.dfa_transitions, accept_states)) >= 2
    /\ result.dfa.accept_states # {}
    /\ Len(result.dfa.dead_states) = 1

\* C11: for regex "a" over alphabet "ab" the returned DFA has exactly three
\* states, a start state, one accept state and one dead state, pairwise
\* distinct; it accepts the string a and no other (the accept state and
\* the dead state both lead to the dead state on every symbol), and the
\* start state goes to the dead state on b.
C11_SingleLiteral ==
    (Returned /\ regex = <<"a">> /\ alphabet = <<"a", "b">>) =>
        LET d == result.dfa
            K == DOMAIN d.transitions
        IN  /\ Cardinality(K) = 3
            /\ Cardinality(d.accept_states) = 1
            /\ Len(d.dead_states) = 1
            /\ K = {d.start_state} \cup d.accept_states
                      \cup Range(d.dead_states)
            /\ { w \in Strings(alphabet, MaxStrLen) : Accepts(d, w) }
                  = { <<"a">> }
            /\ d.transitions[d.start_state]["a"] \in d.accept_states
            /\ d.transitions[d.start_state]["b"] = d.dead_states[1]
            /\ \A s \in d.accept_states \cup Range(d.dead_states) :
                 \A c \in Range(alphabet) :
                    d.transitions[s][c] = d.dead_states[1]

\* the call for "a" over "ab" has returned a DFA that accepts a
C11_Witness ==
    /\ Returned
    /\ regex = <<"a">>
    /\ alphabet = <<"a", "b">>
    /\ Accepts(result.dfa, <<"a">>)

\* C12: for regex "a*" over alphabet "a" the returned DFA has exactly one
\* state, which is the start state and an accept state and goes to itself
\* on a; dead_states is empty and nfa_to_dfa created no dead state.
C12_StarOfLiteral ==
    (Returned /\ regex = <<"a", "*">> /\ alphabet = <<"a">>) =>
        LET d == result.dfa
            K == DOMAIN d.transitions
        IN  /\ K = {d.start_state}
            /\ d.accept_states = {d.start_state}
            /\ d.transitions[d.start_state]["a"] = d.start_state
            /\ d.dead_states = <<>>
            /\ sub.dead_state = NoDead

\* the call for "a*" over "a" has returned a DFA that accepts aaa
C12_Witness ==
    /\ Returned
    /\ regex = <<"a", "*">>
    /\ alphabet = <<"a">>
    /\ Accepts(result.dfa, <<"a", "a", "a">>)

\* the AST has only the five node kinds build_nfa knows (line 132 raises
\* on any other)
RECURSIVE KnownNode(_)
KnownNode(node) ==
    /\ Len(node) >= 1
    /\ CASE node[1] = "lit"     -> Len(node) = 2
         [] node[1] = "epsilon" -> Len(node) = 1
         [] node[1] \in {"concat", "union"} ->
              Len(node) = 3 /\ KnownNode(node[2]) /\ KnownNode(node[3])
         [] node[1] = "star"    -> Len(node) = 2 /\ KnownNode(node[2])
         [] OTHER               -> FALSE

\* C13: after parse has returned an AST no later step of regex_to_dfa
\* raises: the AST has only node kinds build_nfa knows; every set that
\* nfa_to_dfa takes from unmarked has an id in dfa_states and the dead
\* state has a row to receive its self-loops; minimize_dfa finds every
\* dfa_transitions[s][symbol] it reads (line 195 on the table it is given,
\* line 218 on the completed table), picks representatives from non-empty
\* blocks and finds the start state and every representative's target in
\* new_state_map; the call ends with a DFA, not with an error.
C13_NoErrorAfterParse ==
    /\ pc = "build" => KnownNode(tree)
    /\ pc = "subset" =>
          /\ \A i \in DOMAIN sub.unmarked :
                sub.unmarked[i] \in DOMAIN sub.dfa_states
          /\ sub.dead_state # NoDead =>
                sub.dead_state \in DOMAIN sub.dfa_transitions
    /\ pc = "min_init" => ~lookup_fails(sub.dfa_transitions, alphabet)
    /\ pc = "minimize" =>
          /\ mini.err = ""
          /\ \A s \in mini.states :
                /\ s \in DOMAIN mini.trans
                /\ Range(alphabet) \subseteq DOMAIN mini.trans[s]
          /\ \A i \in DOMAIN mini.P : mini.P[i] # {}
          /\ \A i \in DOMAIN mini.W : mini.W[i] # {}
          /\ mini.W = <<>> =>
                LET map == new_state_map(mini.P)
                IN  /\ sub.start_state \in DOMAIN map
                    /\ \A s \in mini.states : \A a \in Range(alphabet) :
                          mini.trans[s][a] \in DOMAIN map
    /\ pc = "done" => result.status = "ok"

\* a call whose subset construction created the dead state has returned a
\* DFA over a non-empty alphabet
C13_Witness ==
    /\ Returned
    /\ alphabet # <<>>
    /\ sub.dead_state # NoDead
    /\ Cardinality(DOMAIN result.dfa.transitions) >= 2

\* the NFA states that epsilon moves alone lead to from the states of S
RECURSIVE EpsReach(_, _)
EpsReach(trans, S) ==
    LET N == S \cup UNION { trans[s][None] :
                              s \in { x \in S \cap DOMAIN trans :
                                        None \in DOMAIN trans[x] } }
    IN  IF N = S THEN S ELSE EpsReach(trans, N)

\* the NFA states some run on w ends in, started in a state of S and using
\* epsilon moves freely before, between and after the symbols of w
RECURSIVE NfaRun(_, _, _)
NfaRun(trans, S, w) ==
    LET E == EpsReach(trans, S)
    IN  IF w = <<>> THEN E
        ELSE NfaRun(trans,
                    UNION { trans[s][Head(w)] :
                              s \in { x \in E \cap DOMAIN trans :
                                        Head(w) \in DOMAIN trans[x] } },
                    Tail(w))

\* C14: when nfa_to_dfa and get_accept_states have run, on every string
\* (up to MaxStrLen) the DFA state reached from the start state is
\* accepting exactly when some NFA run on the string ends in the NFA's
\* accept state, and it is the id of exactly the set of NFA states that
\* runs on the string end in, or the dead state when that set is empty;
\* the same holds for one more symbol from every interned set, hence for
\* strings of any length.
C14_DeterminizationPreservesLanguage ==
    pc = "min_init" =>
        LET ids == sub.dfa_states
            dt == sub.dfa_transitions
            IdOf(S) == IF S = {} THEN sub.dead_state
                       ELSE IF S \in DOMAIN ids THEN ids[S] ELSE NoDead
        IN  /\ \A w \in Strings(alphabet, MaxStrLen) :
                 LET S == NfaRun(nfa.trans, {nfa.s}, w)
                     q == Walk(dt, sub.start_state, w)
                 IN  /\ q \in accept_states <=> nfa.t \in S
                     /\ q # NoDead
                     /\ q = IdOf(S)
            /\ \A S \in DOMAIN ids : \A a \in Range(alphabet) :
                 LET T == NfaRun(nfa.trans, S, <<a>>)
                 IN  /\ IdOf(T) # NoDead
                     /\ dt[ids[S]][a] = IdOf(T)
            /\ \A S \in DOMAIN ids : ids[S] \in accept_states <=> nfa.t \in S
            /\ sub.dead_state # NoDead =>
                 /\ sub.dead_state \notin accept_states
                 /\ \A a \in Range(alphabet) :
                       dt[sub.dead_state][a] = sub.dead_state

\* a DFA with a dead state, an accept state and a state standing for three
\* NFA states or more has been built
C14_Witness ==
    /\ pc = "min_init"
    /\ sub.dead_state # NoDead
    /\ accept_states # {}
    /\ \E S \in DOMAIN sub.dfa_states : Cardinality(S) >= 3
    /\ \E w \in Strings(alphabet, MaxStrLen) :
          /\ Len(w) >= 2
          /\ nfa.t \in NfaRun(nfa.trans, {nfa.s}, w)

\* the states of an NFA fragment: its start, its accept state, every key
\* and every target of its transition map
NfaStates(f) ==
    {f.s, f.t} \cup DOMAIN f.trans
      \cup UNION { UNION Range(f.trans[x]) : x \in DOMAIN f.trans }

\* the identifiers left for the children of a node, after the two that a
\* union or star node takes for itself first
ChildIds(node, ids) ==
    IF node[1] \in {"union", "star"} THEN SubSeq(ids, 3, Len(ids)) ELSE ids

\* what build_nfa returns at every level of its recursion on node
RECURSIVE Fragments(_, _)
Fragments(node, ids) ==
    {build_nfa(node, ids)} \cup
      CASE node[1] \in {"lit", "epsilon"} -> {}
        [] node[1] \in {"concat", "union"} ->
             Fragments(node[2], ChildIds(node, ids))
               \cup Fragments(node[3],
                              build_nfa(node[2], ChildIds(node, ids)).rest)
        [] node[1] = "star" -> Fragments(node[2], ChildIds(node, ids))

\* the pairs of sub-fragments of the concat and union nodes of the
\* recursion on node
RECURSIVE SiblingFragments(_, _)
SiblingFragments(node, ids) ==
    CASE node[1] \in {"lit", "epsilon"} -> {}
      [] node[1] \in {"concat", "union"} ->
           LET l == build_nfa(node[2], ChildIds(node, ids))
           IN  {<<l, build_nfa(node[3], l.rest)>>}
                 \cup SiblingFragments(node[2], ChildIds(node, ids))
                 \cup SiblingFragments(node[3], l.rest)
      [] node[1] = "star" -> SiblingFragments(node[2], ChildIds(node, ids))

\* C15: in one sequential conversion the identifiers new_state has issued
\* when build_nfa returns are pairwise different and are exactly
\* 0, 1, ..., n-1, where n is the number of states of the NFA; every one of
\* them is a state of the NFA, and at every concat and union node the
\* state sets of the two sub-fragments are disjoint.
C15_IdsDistinctContiguous ==
    pc = "subset_init" =>
        LET n == NumNewStates(tree)
            issued == SeqSupply(state_id - n, n)
        IN  /\ \A i, j \in 1..n : i # j => issued[i] # issued[j]
            /\ Range(issued) = 0..(n - 1)
            /\ nfa = build_nfa(tree, issued)
            /\ nfa.rest = <<>>
            /\ NfaStates(nfa) = 0..(n - 1)
            /\ Cardinality(NfaStates(nfa)) = n
            /\ \A p \in SiblingFragments(tree, issued) :
                  NfaStates(p[1]) \cap NfaStates(p[2]) = {}

\* the NFA of a pattern with a union or concat under a star has been
\* built by a call that found the counter above 0
C15_Witness ==
    /\ pc = "subset_init"
    /\ tree[1] = "star"
    /\ tree[2][1] \in {"union", "concat"}
    /\ Cardinality(NfaStates(nfa)) >= 6
    /\ entry_id > 0

\* C16: in the transition map build_nfa returns, at every level of its
\* recursion, the start state, the accept state and every state that is
\* the target of a transition are keys of the map.
C16_NoDanglingNfaStates ==
    pc = "subset_init" =>
        LET n == NumNewStates(tree)
        IN  \A f \in Fragments(tree, SeqSupply(state_id - n, n)) :
               /\ f.s \in DOMAIN f.trans
               /\ f.t \in DOMAIN f.trans
               /\ \A x \in DOMAIN f.trans : \A y \in DOMAIN f.trans[x] :
                     f.trans[x][y] \subseteq DOMAIN f.trans

\* build_nfa has returned the NFA of a union whose recursion went three
\* levels deep or more; its accept state has no outgoing transition
C16_Witness ==
    /\ pc = "subset_init"
    /\ tree[1] = "union"
    /\ Cardinality(Fragments(tree, SeqSupply(0, NumNewStates(tree)))) >= 4
    /\ nfa.trans[nfa.t] = <<>>

\* C17: minimize_dfa, given a table in which a state lacks a transition
\* for some alphabet symbol (the raw output of nfa_to_dfa, whose dead state
\* has an empty row), does not fail: before refinement the state has a
\* self-loop on every symbol it lacked, and the call returns a minimised
\* DFA.
C17_CompletesPartialTable ==
    /\ pc = "minimize" =>
          /\ mini.err = ""
          /\ \A s \in DOMAIN sub.dfa_transitions : \A a \in Range(alphabet) :
                a \notin DOMAIN sub.dfa_transitions[s] => mini.trans[s][a] = s
    /\ pc = "done" => result.status = "ok"

\* the blocks of P are non-empty, pairwise disjoint and cover states
IsPartition(P, states) ==
    /\ \A i \in DOMAIN P : P[i] # {}
    /\ \A i, j \in DOMAIN P : i # j => P[i] \cap P[j] = {}
    /\ UNION Range(P) = states

\* C18: at every test of "while W" in minimize_dfa, and after each symbol
\* of the iteration that follows, P is a partition of the DFA's states
\* (blocks non-empty, pairwise disjoint, covering all states); the
\* minimised DFA has the states 0..|P|-1, and new_state_map sends each
\* DFA state to the index of the one final block that holds it.
C18_PIsPartition ==
    /\ (pc = "minimize" /\ mini.err = "") =>
          /\ IsPartition(mini.P, mini.states)
          /\ mini.W # <<>> =>
                LET A == mini.W[Len(mini.W)]
                    popped == [mini EXCEPT !.W = SubSeq(@, 1, Len(@) - 1)]
                IN  \A k \in 1..Len(alphabet) :
                       IsPartition(
                          refine_symbols(popped, A, SubSeq(alphabet, 1, k)).P,
                          mini.states)
    /\ Returned =>
          /\ DOMAIN result.dfa.transitions = 0..(Len(mini.P) - 1)
          /\ DOMAIN result.map = mini.states
          /\ \A s \in mini.states : \A i \in DOMAIN mini.P :
                s \in mini.P[i] <=> result.map[s] = i - 1

\* the loop stands at a test of "while W" with work left, after a split
\* has made P longer than the initial partition
C18_Witness ==
    /\ pc = "minimize"
    /\ mini.err = ""
    /\ mini.W # <<>>
    /\ Len(mini.P) >= 3
    /\ \E i \in DOMAIN mini.P : Cardinality(mini.P[i]) >= 2

\* C19: when the loop of minimize_dfa ends with W empty, for every block
\* of P and every alphabet symbol all members of the block go into one and
\* the same block, and every block lies inside the accepting set or is
\* disjoint from it; whichever member line 249 picks as a block's
\* representative, lines 246-255 give the same transitions, start state
\* and accept states.
C19_BlocksAgree ==
    (pc = "minimize" /\ mini.err = "" /\ mini.W = <<>>) =>
        /\ \A i \in DOMAIN mini.P : \A a \in Range(alphabet) :
              \E j \in DOMAIN mini.P :
                 \A s \in mini.P[i] : mini.trans[s][a] \in mini.P[j]
        /\ \A i \in DOMAIN mini.P :
              mini.P[i] \subseteq mini.F \/ mini.P[i] \cap mini.F = {}
        /\ \A r1, r2 \in RepChoices(mini.P) :
              minimize_finish(mini, sub.start_state, alphabet, r1)
                = minimize_finish(mini, sub.start_state, alphabet, r2)

\* the loop has ended with a block of two states or more, after a split,
\* so that line 249 has a choice
C19_Witness ==
    /\ pc = "minimize"
    /\ mini.err = ""
    /\ mini.W = <<>>
    /\ alphabet # <<>>
    /\ Len(mini.P) >= 3
    /\ Cardinality(RepChoices(mini.P)) >= 2

\* the number of times the loop of minimize_dfa has split a block: every
\* split puts two blocks in the place of one
Splits == Len(mini.P) - Len(initial_partition(mini.states, mini.F))

\* what is left for the loop to do: the blocks queued, and two for every
\* split that can still happen
Measure == Len(mini.W) + 2 * (Cardinality(mini.states) - Len(mini.P))

\* C20: the loop of minimize_dfa terminates: it never splits more than
\* (number of states - 1) times, and every iteration lowers Measure,
\* which is never negative and is at most twice the number of states when
\* the loop starts; so after that many iterations at most the loop has
\* ended, which it does only with W empty, every queued block popped or
\* replaced by its halves and these popped.
C20_RefinementTerminates ==
    /\ [](pc = "minimize" =>
            /\ Splits <= Cardinality(mini.states) - 1
            /\ Measure >= 0
            /\ Measure <= 2 * Cardinality(mini.states))
    /\ [][(pc = "minimize" /\ pc' = "minimize") => Measure' < Measure]_vars
    /\ [][(pc = "minimize" /\ pc' # "minimize") => mini.W = <<>>]_vars

\* the loop has ended after two splits or more and three iterations or
\* more
C20_Witness ==
    /\ pc = "minimize"
    /\ mini.err = ""
    /\ mini.W = <<>>
    /\ Splits >= 2
    /\ Cardinality(mini.states) >= 4

\* W holds only blocks of P and none of them twice
WorklistOfBlocks(m) ==
    /\ Range(m.W) \subseteq Range(m.P)
    /\ \A i, j \in DOMAIN m.W : i # j => m.W[i] # m.W[j]

\* what "for Y in P" (lines 220-237) does to W for the symbol's preimage X:
\* a split block that was queued is replaced by both parts, of a split
\* block that was not queued only the smaller part is queued (the
\* intersection on a tie), and an unsplit block stays as it was
SplitsAsSpecified(before, after, X) ==
    \A Y \in Range(before.P) :
        LET inter == Y \cap X
            diff == Y \ X
            small == IF Cardinality(inter) <= Cardinality(diff)
                     THEN inter ELSE diff
            large == IF small = inter THEN diff ELSE inter
        IN  IF inter # {} /\ diff # {}
            THEN /\ {inter, diff} \subseteq Range(after.P)
                 /\ Y \notin Range(after.P)
                 /\ Y \notin Range(after.W)
                 /\ IF Y \in Range(before.W)
                    THEN {inter, diff} \subseteq Range(after.W)
                    ELSE small \in Range(after.W) /\ large \notin Range(after.W)
            ELSE /\ Y \in Range(after.P)
                 /\ Y \in Range(after.W) <=> Y \in Range(before.W)

\* C21: at every test of "while W" in minimize_dfa every block in W is a
\* block of P and W holds no block twice; in the iteration that follows,
\* for each symbol, a block that is split is replaced in W by both parts
\* if it was in W, and otherwise only its smaller part (the intersection
\* part on a tie) is pushed.
C21_WorklistDiscipline ==
    (pc = "minimize" /\ mini.err = "") =>
        /\ WorklistOfBlocks(mini)
        /\ mini.W # <<>> =>
              LET A == mini.W[Len(mini.W)]
                  popped == [mini EXCEPT !.W = SubSeq(@, 1, Len(@) - 1)]
              IN  \A k \in 1..Len(alphabet) :
                     LET before == refine_symbols(popped, A,
                                                  SubSeq(alphabet, 1, k - 1))
                         after == refine_symbol(before, A, alphabet[k])
                     IN  SplitsAsSpecified(before, after,
                                           preimage(before, alphabet[k], A))

\* the loop stands at a test of "while W" where the next iteration splits,
\* for some symbol, a block that is not queued into two parts of equal size
C21_Witness ==
    /\ pc = "minimize"
    /\ mini.err = ""
    /\ mini.W # <<>>
    /\ LET A == mini.W[Len(mini.W)]
           popped == [mini EXCEPT !.W = SubSeq(@, 1, Len(@) - 1)]
       IN  \E k \in 1..Len(alphabet) :
              LET before == refine_symbols(popped, A,
                                           SubSeq(alphabet, 1, k - 1))
                  X == preimage(before, alphabet[k], A)
              IN  \E Y \in Range(before.P) :
                     /\ Y \notin Range(before.W)
                     /\ Y \cap X # {}
                     /\ Cardinality(Y \cap X) = Cardinality(Y \ X)

\* the subsets nfa_to_dfa has taken from unmarked and given a row
Processed == { S \in DOMAIN sub.dfa_states :
                 sub.dfa_states[S] \in DOMAIN sub.dfa_transitions }

\* the rows of dfa_transitions that stand for no subset of NFA states
NonSubsetRows == DOMAIN sub.dfa_transitions \ Range(sub.dfa_states)

\* C22: at every test of "while unmarked" in nfa_to_dfa, and so when it
\* returns, there is a dead state exactly if some processed (subset,
\* symbol) pair has an empty successor set; it is the one row that stands
\* for no subset, its row is empty, and a transition targets it exactly
\* when its successor set is empty; while no successor set has been empty
\* dead_state is None and every row and every target is the id of a
\* subset.
C22_OneLazyDeadState ==
    pc = "subset" =>
        LET ids == sub.dfa_states
            dt == sub.dfa_transitions
            Succ(S, a) == NfaRun(nfa.trans, S, <<a>>)
        IN  /\ sub.dead_state # NoDead <=>
                 \E S \in Processed : \E a \in Range(alphabet) :
                    Succ(S, a) = {}
            /\ NonSubsetRows = IF sub.dead_state = NoDead THEN {}
                               ELSE {sub.dead_state}
            /\ sub.dead_state # NoDead => dt[sub.dead_state] = <<>>
            /\ \A S \in Processed : \A a \in Range(alphabet) :
                 IF Succ(S, a) = {}
                 THEN dt[ids[S]][a] = sub.dead_state
                 ELSE dt[ids[S]][a] \in Range(ids)

\* nfa_to_dfa is about to return with a dead state that three transitions
\* or more target, from two rows or more
C22_Witness ==
    /\ pc = "subset"
    /\ sub.unmarked = <<>>
    /\ sub.dead_state # NoDead
    /\ Cardinality({ S \in Processed :
                       \E a \in Range(alphabet) :
                          sub.dfa_transitions[sub.dfa_states[S]][a]
                             = sub.dead_state }) >= 2
    /\ Cardinality({ p \in Processed \X Range(alphabet) :
                       sub.dfa_transitions[sub.dfa_states[p[1]]][p[2]]
                          = sub.dead_state }) >= 3

\* C23: at every test of "while unmarked" in nfa_to_dfa two different
\* subsets have different ids, the epsilon-closure of {nfa_start} has id 0
\* and is the start state, the dead state's id is the id of no subset, and
\* the ids in use are exactly 0..next_state_id-1; every subset discovered
\* is either waiting in unmarked, once, or has been processed, never both,
\* and an iteration processes a subset that had no row before and has one
\* after; when the loop ends every subset has been processed.
C23_InterningInjectiveExhaustive ==
    /\ [](pc = "subset" =>
            LET ids == sub.dfa_states
                dead == IF sub.dead_state = NoDead THEN {}
                        ELSE {sub.dead_state}
            IN  /\ \A S, T \in DOMAIN ids : ids[S] = ids[T] => S = T
                /\ EpsReach(nfa.trans, {nfa.s}) \in DOMAIN ids
                /\ ids[EpsReach(nfa.trans, {nfa.s})] = 0
                /\ sub.start_state = 0
                /\ dead \cap Range(ids) = {}
                /\ Range(ids) \cup dead = 0..(sub.next_state_id - 1)
                /\ \A i, j \in DOMAIN sub.unmarked :
                      i # j => sub.unmarked[i] # sub.unmarked[j]
                /\ Range(sub.unmarked) \cup Processed = DOMAIN ids
                /\ Range(sub.unmarked) \cap Processed = {}
                /\ sub.unmarked = <<>> => Processed = DOMAIN ids)
    /\ [][(pc = "subset" /\ pc' = "subset") =>
            /\ Head(sub.unmarked) \notin Processed
            /\ Processed' = Processed \cup {Head(sub.unmarked)}
            /\ \A S \in DOMAIN sub.dfa_states :
                  /\ S \in DOMAIN sub.dfa_states'
                  /\ sub.dfa_states'[S] = sub.dfa_states[S]]_vars

\* nfa_to_dfa is about to return after interning four subsets or more and
\* a dead state, some successor set having been met a second time
C23_Witness ==
    /\ pc = "subset"
    /\ sub.unmarked = <<>>
    /\ sub.dead_state # NoDead
    /\ Cardinality(DOMAIN sub.dfa_states) >= 4
    /\ \E S, T \in Processed : \E a \in Range(alphabet) :
          /\ S # T
          /\ sub.dfa_transitions[sub.dfa_states[S]][a]
                = sub.dfa_transitions[sub.dfa_states[T]][a]
          /\ sub.dfa_transitions[sub.dfa_states[S]][a] # sub.dead_state

RECURSIVE Pow2(_)
Pow2(n) == IF n = 0 THEN 1 ELSE 2 * Pow2(n - 1)

\* what is left for the loop of nfa_to_dfa to do: the subsets waiting, and
\* the subsets of NFA states not discovered yet
SubsetMeasure ==
    Len(sub.unmarked)
      + Pow2(Cardinality(NfaStates(nfa))) - Cardinality(DOMAIN sub.dfa_states)

\* C24: the loop of nfa_to_dfa terminates: the subsets it has created are
\* sets of NFA states and, the dead state counted with them, never more
\* than 2^(number of NFA states); every iteration lowers SubsetMeasure,
\* which is never negative, and the loop is left only with unmarked empty.
C24_SubsetConstructionTerminates ==
    /\ [](pc = "subset" =>
            /\ DOMAIN sub.dfa_states \subseteq SUBSET NfaStates(nfa)
            /\ Cardinality(DOMAIN sub.dfa_states)
                  <= Pow2(Cardinality(NfaStates(nfa)))
            /\ sub.next_state_id <= Pow2(Cardinality(NfaStates(nfa)))
            /\ SubsetMeasure >= 0)
    /\ [][(pc = "subset" /\ pc' = "subset") =>
            SubsetMeasure' < SubsetMeasure]_vars
    /\ [][(pc = "subset" /\ pc' # "subset") => sub.unmarked = <<>>]_vars

\* nfa_to_dfa is about to return after five iterations or more, one of
\* which met its own subset again as a successor set
C24_Witness ==
    /\ pc = "subset"
    /\ sub.unmarked = <<>>
    /\ Cardinality(Processed) >= 5
    /\ \E S \in Processed : \E a \in Range(alphabet) :
          sub.dfa_transitions[sub.dfa_states[S]][a] = sub.dfa_states[S]

\* epsilon_closure again, keeping the list of the states that were ever on
\* the stack: those of "stack = list(states)" and those of line 142
RECURSIVE closure_pushes(_, _, _, _)
closure_pushes(trans, stack, closure, pushed) ==
    IF stack = <<>> THEN [closure |-> closure, pushed |-> pushed]
    ELSE LET s == stack[Len(stack)]
             popped == SubSeq(stack, 1, Len(stack) - 1)
             fresh == IF s \in DOMAIN trans /\ None \in DOMAIN trans[s]
                      THEN trans[s][None] \ closure ELSE {}
         IN  closure_pushes(trans, popped \o SetToSeq(fresh),
                            closure \cup fresh, pushed \o SetToSeq(fresh))

\* C is closed under the epsilon transitions of trans
EpsClosed(trans, C) ==
    \A x \in C \cap DOMAIN trans :
        None \in DOMAIN trans[x] => trans[x][None] \subseteq C

\* epsilon_closure(trans, S) is the smallest set that contains S and is
\* closed under epsilon transitions, and no state was on the stack twice
ClosureAsSpecified(trans, S) ==
    LET C == epsilon_closure(trans, S)
        run == closure_pushes(trans, SetToSeq(S), S, SetToSeq(S))
    IN  /\ S \subseteq C
        /\ EpsClosed(trans, C)
        /\ C = EpsReach(trans, S)
        /\ \A D \in SUBSET C : (S \subseteq D /\ EpsClosed(trans, D)) => D = C
        /\ run.closure = C
        /\ Range(run.pushed) = C
        /\ \A i, j \in DOMAIN run.pushed :
              i # j => run.pushed[i] # run.pushed[j]

\* C25: on the transition map build_nfa returned (maps with epsilon cycles
\* among them) epsilon_closure returns, for every set of at most MaxSeed
\* states and for every set nfa_to_dfa calls it with, exactly the smallest
\* set that contains the given one and is closed under epsilon
\* transitions; no state is put on the stack twice, and the closure of the
\* empty set is empty.
C25_EpsilonClosure ==
    /\ pc = "subset_init" =>
          /\ epsilon_closure(nfa.trans, {}) = {}
          /\ \A S \in { T \in SUBSET NfaStates(nfa) :
                          Cardinality(T) <= MaxSeed } :
                ClosureAsSpecified(nfa.trans, S)
    /\ (pc = "subset" /\ sub.unmarked = <<>>) =>
          \A S \in DOMAIN sub.dfa_states : \A a \in Range(alphabet) :
             ClosureAsSpecified(nfa.trans, move(nfa.trans, S, a))

\* build_nfa has returned an NFA with an epsilon cycle, and the closure of
\* its start state has four states or more
C25_Witness ==
    /\ pc = "subset_init"
    /\ \E x \in NfaStates(nfa) :
          x \in EpsReach(nfa.trans, move(nfa.trans, {x}, None))
    /\ Cardinality(epsilon_closure(nfa.trans, {nfa.s})) >= 4

\* the edges of a transition map: (source, label, target)
Edges(trans) ==
    UNION { UNION { { <<x, y, t>> : t \in trans[x][y] } :
                      y \in DOMAIN trans[x] } :
              x \in DOMAIN trans }

\* the fragment build_nfa returns for node, and every fragment below it,
\* is its children's fragments plus the edges of its own case
RECURSIVE Compositional(_, _)
Compositional(node, ids) ==
    LET f == build_nfa(node, ids)
        E == Edges(f.trans)
        K == DOMAIN f.trans
    IN  /\ f.s # f.t
        /\ CASE node[1] \in {"lit", "epsilon"} ->
                  /\ f.s = ids[1]
                  /\ f.t = ids[2]
                  /\ K = {f.s, f.t}
                  /\ E = { <<f.s, IF node[1] = "lit" THEN node[2] ELSE None,
                             f.t>> }
             [] node[1] = "concat" ->
                  LET l == build_nfa(node[2], ids)
                      r == build_nfa(node[3], l.rest)
                  IN  /\ f.s = l.s
                      /\ f.t = r.t
                      /\ NfaStates(l) \cap NfaStates(r) = {}
                      /\ K = DOMAIN l.trans \cup DOMAIN r.trans
                      /\ E = Edges(l.trans) \cup Edges(r.trans)
                               \cup { <<l.t, None, r.s>> }
                      /\ Compositional(node[2], ids)
                      /\ Compositional(node[3], l.rest)
             [] node[1] = "union" ->
                  LET l == build_nfa(node[2], ChildIds(node, ids))
                      r == build_nfa(node[3], l.rest)
                  IN  /\ f.s = ids[1]
                      /\ f.t = ids[2]
                      /\ {f.s, f.t} \cap (NfaStates(l) \cup NfaStates(r)) = {}
                      /\ NfaStates(l) \cap NfaStates(r) = {}
                      /\ K = DOMAIN l.trans \cup DOMAIN r.trans \cup {f.s, f.t}
                      /\ E = Edges(l.trans) \cup Edges(r.trans)
                               \cup { <<f.s, None, l.s>>, <<f.s, None, r.s>>,
                                      <<l.t, None, f.t>>, <<r.t, None, f.t>> }
                      /\ Compositional(node[2], ChildIds(node, ids))
                      /\ Compositional(node[3], l.rest)
             [] node[1] = "star" ->
                  LET x == build_nfa(node[2], ChildIds(node, ids))
                  IN  /\ f.s = ids[1]
                      /\ f.t = ids[2]
                      /\ {f.s, f.t} \cap NfaStates(x) = {}
                      /\ K = DOMAIN x.trans \cup {f.s, f.t}
                      /\ E = Edges(x.trans)
                               \cup { <<f.s, None, x.s>>, <<f.s, None, f.t>>,
                                      <<x.t, None, x.s>>, <<x.t, None, f.t>> }
                      /\ Compositional(node[2], ChildIds(node, ids))

\* C26: every fragment build_nfa returns, at every level of its recursion,
\* has a start and an accept state that differ, and its transition map has
\* the keys and edges of its children's maps and the edges of its own case
\* and no others: a literal or epsilon node one edge between two fresh
\* states; concat the epsilon edge L.accept -> R.start, with start L.start
\* and accept R.accept; union two fresh states s, t and the epsilon edges
\* s -> L.start, s -> R.start, L.accept -> t, R.accept -> t; star two fresh
\* states s, t and the epsilon edges s -> X.start, s -> t,
\* X.accept -> X.start, X.accept -> t.
C26_BuildNfaCompositional ==
    pc = "subset_init" =>
        LET n == NumNewStates(tree)
        IN  Compositional(tree, SeqSupply(state_id - n, n))

\* build_nfa has returned the NFA of a concat whose parts are a star and a
\* union or the other way round
C26_Witness ==
    /\ pc = "subset_init"
    /\ tree[1] = "concat"
    /\ {tree[2][1], tree[3][1]} = {"star", "union"}
    /\ Cardinality(Edges(nfa.trans)) >= 10

\* the AST has a literal node that carries the character c
RECURSIVE HasLit(_, _)
HasLit(node, c) ==
    CASE node[1] = "lit"     -> node[2] = c
      [] node[1] = "epsilon" -> FALSE
      [] node[1] \in {"concat", "union"} ->
           HasLit(node[2], c) \/ HasLit(node[3], c)
      [] node[1] = "star"    -> HasLit(node[2], c)

\* a "*" stands where an atom is expected: at the start of the pattern or
\* directly after "(" or "|"
StarWhereAtomExpected(p) ==
    \E i \in 1..Len(p) :
        p[i] = "*" /\ (i = 1 \/ p[i - 1] \in {"(", "|"})

\* C27: no AST parse returns has a literal node that carries "*", and
\* parse fails on every pattern in which a "*" stands where an atom is
\* expected.
C27_StarNeverLiteral ==
    /\ ParseReturned => ~HasLit(tree, "*")
    /\ (pc # "idle" /\ StarWhereAtomExpected(regex)) => pc = "raised"

\* the number of "*" the pattern ends with
RECURSIVE TrailingStars(_)
TrailingStars(p) ==
    IF p # <<>> /\ p[Len(p)] = "*"
    THEN 1 + TrailingStars(SubSeq(p, 1, Len(p) - 1))
    ELSE 0

\* the pattern without the stars it ends with
Unstarred(p) == SubSeq(p, 1, Len(p) - TrailingStars(p))

\* the pattern is one atom: one character that is not "(", ")", "|" or
\* "*", or one group whose closing parenthesis is the last character
IsAtom(p) ==
    \/ Len(p) = 1 /\ p[1] \notin {"(", ")", "|", "*"}
    \/ /\ Len(p) >= 2
       /\ p[1] = "("
       /\ p[Len(p)] = ")"
       /\ Depth(p) = 0
       /\ \A i \in 1..(Len(p) - 1) : Depth(SubSeq(p, 1, i)) > 0

\* k star nodes around node
RECURSIVE StarNest(_, _)
StarNest(k, node) == IF k = 0 THEN node ELSE <<"star", StarNest(k - 1, node)>>

\* C28: a pattern that is an atom followed by k >= 1 stars parses without
\* error into k nested star nodes around the atom's AST ("a**" into
\* star(star(lit a))), and the DFA regex_to_dfa returns for it has the
\* transitions, start state, accept states and dead states of the DFA it
\* returns for the atom followed by one star.
C28_RepeatedStarsInert ==
    (pc # "idle" /\ TrailingStars(regex) >= 1 /\ IsAtom(Unstarred(regex))) =>
        /\ pc # "raised"
        /\ tree = StarNest(TrailingStars(regex), parse(Unstarred(regex), 0).node)
        /\ regex = <<"a", "*", "*">> =>
              tree = <<"star", <<"star", <<"lit", "a">>>>>>
        /\ Returned =>
              LET one == regex_to_dfa(Unstarred(regex) \o <<"*">>, alphabet)
              IN  /\ one.status = "ok"
                  /\ result.dfa.transitions = one.dfa.transitions
                  /\ result.dfa.start_state = one.dfa.start_state
                  /\ result.dfa.accept_states = one.dfa.accept_states
                  /\ result.dfa.dead_states = one.dfa.dead_states

\* the call for a literal followed by two stars or more has returned a DFA
\* with a dead state
C28_Witness ==
    /\ Returned
    /\ TrailingStars(regex) >= 2
    /\ IsAtom(Unstarred(regex))
    /\ result.dfa.dead_states # <<>>
    /\ result.dfa.accept_states # {}

\* the literals of the AST
RECURSIVE Literals(_)
Literals(node) ==
    CASE node[1] = "lit"     -> {node[2]}
      [] node[1] = "epsilon" -> {}
      [] node[1] \in {"concat", "union"} ->
           Literals(node[2]) \cup Literals(node[3])
      [] node[1] = "star"    -> Literals(node[2])

\* the AST matches no string over Sigma: every way to match it needs a
\* literal that is not in Sigma
Void(node, Sigma) ==
    LET RECURSIVE V(_)
        V(n) == CASE n[1] = "lit"     -> n[2] \notin Sigma
                  [] n[1] = "epsilon" -> FALSE
                  [] n[1] = "concat"  -> V(n[2]) \/ V(n[3])
                  [] n[1] = "union"   -> V(n[2]) /\ V(n[3])
                  [] n[1] = "star"    -> FALSE
    IN  V(node)

\* the AST with every sub-expression that needs a literal outside Sigma
\* taken out: a void side of a union gives way to the other side, a star
\* of a void body is the empty string
RECURSIVE Pruned(_, _)
Pruned(node, Sigma) ==
    CASE node[1] \in {"lit", "epsilon"} -> node
      [] node[1] = "concat" ->
           <<"concat", Pruned(node[2], Sigma), Pruned(node[3], Sigma)>>
      [] node[1] = "union" ->
           IF Void(node[2], Sigma) THEN Pruned(node[3], Sigma)
           ELSE IF Void(node[3], Sigma) THEN Pruned(node[2], Sigma)
           ELSE <<"union", Pruned(node[2], Sigma), Pruned(node[3], Sigma)>>
      [] node[1] = "star" ->
           IF Void(node[2], Sigma) THEN <<"epsilon">>
           ELSE <<"star", Pruned(node[2], Sigma)>>

\* C29: a call whose pattern has a literal that is not in the alphabet ends
\* without error; the rows of the returned DFA have the alphabet's symbols
\* as keys and no others; it accepts (up to MaxStrLen) exactly the strings
\* of the regex from which every sub-expression that needs such a literal
\* is taken out, and nothing when the whole regex needs one: then it has
\* one state, the start state, which is dead, and accept_states is empty,
\* as for "c" over "ab".
C29_ForeignLiteralNeverMatches ==
    (pc \in {"done", "raised"} /\ parse(regex, 0).ok
       /\ ~(Literals(parse(regex, 0).node) \subseteq Range(alphabet))) =>
        /\ Returned
        /\ \A s \in DOMAIN result.dfa.transitions :
              DOMAIN result.dfa.transitions[s] = Range(alphabet)
        /\ IF Void(tree, Range(alphabet))
           THEN /\ \A w \in Strings(alphabet, MaxStrLen) :
                      ~Accepts(result.dfa, w)
                /\ DOMAIN result.dfa.transitions = {result.dfa.start_state}
                /\ result.dfa.dead_states = <<result.dfa.start_state>>
                /\ result.dfa.accept_states = {}
           ELSE /\ Literals(Pruned(tree, Range(alphabet)))
                      \subseteq Range(alphabet)
                /\ \A w \in Strings(alphabet, MaxStrLen) :
                      Accepts(result.dfa, w)
                         <=> Matches(Pruned(tree, Range(alphabet)), w)

\* the call for "a|c" over "ab" has returned a DFA that accepts a
C29_Witness ==
    /\ Returned
    /\ regex = <<"a", "|", "c">>
    /\ alphabet = <<"a", "b">>
    /\ Accepts(result.dfa, <<"a">>)
    /\ ~Void(tree, Range(alphabet))

-----------------------------------------------------------------------------
(* 5d. The weight cache of randomDFA.py under a sequence of calls.          *)
-----------------------------------------------------------------------------

\* one call of get_optimized_weights(config), lines 30-40, recorded in the
\* history with the cache it found and the cache it left
GetOptimizedWeights(config, outcome) ==
    /\ Len(calls) < MaxCalls
    /\ LET r == get_optimized_weights(weight_cache, config, outcome)
       IN  /\ weight_cache' = r.cache
           /\ calls' = Append(calls,
                  [ config |-> config, entry |-> weight_cache,
                    invoked |-> r.invoked, out |-> r.out,
                    exit |-> r.cache ])
    /\ UNCHANGED <<pc, regex, alphabet, pos, tree, state_id, nfa, sub,
                   accept_states, mini, result, entry_id, th>>

NextCache ==
    \E config \in Configs :
        \E outcome \in optimize_weights_from_config(config) :
            GetOptimizedWeights(config, outcome)

SpecCache == Init /\ [][NextCache]_vars

-----------------------------------------------------------------------------
(* C30: the weight cache.                                                   *)
-----------------------------------------------------------------------------

\* the call recorded at position i of the history raised
Raised(i) == calls[i].out.kind = "raise"

\* the hash of the configuration of call i
HashOf(i) == get_config_hash(calls[i].config)

\* C30 as claimed: optimize_weights_from_config is invoked exactly on the
\* calls whose configuration hash differs from the cached hash, after EVERY
\* call the cached hash is the hash of that call's config, and a call whose
\* hash equals the cached one returns the cached weights without
\* recomputing. The code contradicts the second part on a call whose
\* optimisation raises.
C30_CacheAsClaimed ==
    \A i \in 1..Len(calls) :
        /\ calls[i].invoked <=> (HashOf(i) # calls[i].entry.cached_config_hash)
        /\ calls[i].exit.cached_config_hash = HashOf(i)
        /\ (HashOf(i) = calls[i].entry.cached_config_hash) =>
               /\ ~calls[i].invoked
               /\ calls[i].out = calls[i].entry.cached_weights

\* C30 amended: optimize_weights_from_config is invoked exactly on the calls
\* whose configuration hash differs from the cached hash (the first call
\* included); after every call that returns, the cached hash is the hash of
\* that call's config and the cached weights are what it returned; a call
\* whose optimisation raises leaves both cached values as it found them; a
\* call whose hash equals the cached one returns the cached weights without
\* recomputing and leaves the cache alone. The cache variable always holds
\* what the last call left.
C30_WeightCache ==
    /\ \A i \in 1..Len(calls) :
        /\ calls[i].invoked <=> (HashOf(i) # calls[i].entry.cached_config_hash)
        /\ ~Raised(i) =>
               /\ calls[i].exit.cached_config_hash = HashOf(i)
               /\ calls[i].exit.cached_weights = calls[i].out
        /\ Raised(i) => calls[i].invoked /\ calls[i].exit = calls[i].entry
        /\ (HashOf(i) = calls[i].entry.cached_config_hash) =>
               /\ ~calls[i].invoked
               /\ calls[i].out = calls[i].entry.cached_weights
               /\ calls[i].exit = calls[i].entry
        /\ calls[i].entry = IF i = 1 THEN NoCache ELSE calls[i - 1].exit
    /\ weight_cache = IF calls = <<>> THEN NoCache ELSE calls[Len(calls)].exit

\* a first call that computes, a second call with the same config answered
\* from the cache, then a call whose optimisation raises on a filled cache,
\* then the first config again, still answered from the cache
C30_Witness ==
    /\ Len(calls) >= 4
    /\ calls[1].invoked /\ ~Raised(1)
    /\ calls[2].config = calls[1].config /\ ~calls[2].invoked
    /\ calls[2].out = calls[1].out
    /\ Raised(3) /\ calls[3].entry.cached_config_hash # NoneValue
    /\ calls[4].config = calls[1].config /\ ~calls[4].invoked
    /\ calls[4].out = calls[1].out

=============================================================================
